---------------------------- MODULE Spec2Model ----------------------------
(***************************************************************************)
(* Model of project-uploader (src/src/main.rs): configure -> build ->      *)
(* archive -> upload -> persist config -> update .gitignore.                *)
(*                                                                         *)
(* Strings are sequences of one-character strings, so that starts_with,    *)
(* replacen, trim, lines and join are computed character by character.     *)
(***************************************************************************)
EXTENDS Integers, Sequences, FiniteSets, TLC

(***************************************************************************)
(* Bounds of the model.                                                    *)
(***************************************************************************)
\* Longest output-directory string explored by SpecZip.
MaxDirLen == 3
\* Longest .gitignore contents explored by SpecGit.
MaxGitLen == 4
\* Longest domain string explored by SpecDomain.
MaxDomainLen == 5
\* Longest stdin buffer a prompt loop may accumulate.
MaxBuffer == 4

(***************************************************************************)
(* Option<String>                                                          *)
(***************************************************************************)
None == [tag |-> "None"]
Some(s) == [tag |-> "Some", val |-> s]
IsNone(o) == o.tag = "None"
IsSome(o) == o.tag = "Some"

(***************************************************************************)
(* String operations of the Rust standard library used by main.rs.         *)
(***************************************************************************)
\* All strings over alphabet A of length at most n.
StringsUpTo(A, n) == UNION {[1..k -> A] : k \in 0..n}

\* str::starts_with
StartsWith(s, p) == Len(p) <= Len(s) /\ SubSeq(s, 1, Len(p)) = p

EndsWith(s, p) == Len(p) <= Len(s) /\ SubSeq(s, Len(s) - Len(p) + 1, Len(s)) = p

\* Does pattern p occur in s at position i (1-based)?
OccursAt(s, p, i) == i + Len(p) - 1 <= Len(s) /\ SubSeq(s, i, i + Len(p) - 1) = p

\* str::replacen(from, to, 1): replace the first occurrence of from, if any.
ReplaceFirst(s, from, to) ==
    LET hits == {i \in 1..Len(s) : OccursAt(s, from, i)}
    IN  IF hits = {} \/ from = <<>> THEN (IF from = <<>> THEN to \o s ELSE s)
        ELSE LET i == CHOOSE j \in hits : \A k \in hits : j <= k
             IN  SubSeq(s, 1, i - 1) \o to \o SubSeq(s, i + Len(from), Len(s))

\* str::replace("\\", "/"): every backslash becomes a forward slash.
ReplaceBackslashes(s) == [i \in 1..Len(s) |-> IF s[i] = "\\" THEN "/" ELSE s[i]]

WhiteSpace == {" ", "\n", "\r", "\t"}

RECURSIVE TrimStart(_)
TrimStart(s) ==
    IF s # <<>> /\ s[1] \in WhiteSpace THEN TrimStart(Tail(s)) ELSE s

RECURSIVE TrimEnd(_)
TrimEnd(s) ==
    IF s # <<>> /\ s[Len(s)] \in WhiteSpace THEN TrimEnd(SubSeq(s, 1, Len(s) - 1)) ELSE s

\* str::trim
Trim(s) == TrimEnd(TrimStart(s))

\* The first line of s including its terminating "\n" (split_inclusive('\n')).
RECURSIVE TakeLine(_)
TakeLine(s) ==
    IF s = <<>> THEN <<>>
    ELSE IF s[1] = "\n" THEN <<"\n">>
    ELSE <<s[1]>> \o TakeLine(Tail(s))

\* One line of str::lines: strip a final "\n", and then a final "\r" only
\* when a "\n" was stripped.
StripLineEnding(l) ==
    IF ~EndsWith(l, <<"\n">>) THEN l
    ELSE LET m == SubSeq(l, 1, Len(l) - 1)
         IN  IF EndsWith(m, <<"\r">>) THEN SubSeq(m, 1, Len(m) - 1) ELSE m

\* str::lines, collected into a Vec.
RECURSIVE Lines(_)
Lines(s) ==
    IF s = <<>> THEN <<>>
    ELSE LET l == TakeLine(s)
         IN  <<StripLineEnding(l)>> \o Lines(SubSeq(s, Len(l) + 1, Len(s)))

\* [&str]::join(sep)
RECURSIVE Join(_, _)
Join(ls, sep) ==
    IF ls = <<>> THEN <<>>
    ELSE IF Len(ls) = 1 THEN ls[1]
    ELSE ls[1] \o sep \o Join(Tail(ls), sep)

\* Vec::contains
Contains(ls, x) == \E i \in 1..Len(ls) : ls[i] = x

(***************************************************************************)
(* Paths (std::path) on a Unix host: text with "/" separators.             *)
(***************************************************************************)
IsAbsolute(p) == StartsWith(p, <<"/">>)

\* PathBuf::join / push: an absolute argument replaces the base; otherwise a
\* separator is added unless the base already ends with one.
PathJoin(base, rel) ==
    IF IsAbsolute(rel) THEN rel
    ELSE IF EndsWith(base, <<"/">>) THEN base \o rel
    ELSE base \o <<"/">> \o rel

RECURSIVE SkipSeparators(_)
SkipSeparators(p) ==
    IF p # <<>> /\ p[1] = "/" THEN SkipSeparators(Tail(p)) ELSE p

\* The text of the first component of p (p has no leading separator).
RECURSIVE FirstComponent(_)
FirstComponent(p) ==
    IF p = <<>> \/ p[1] = "/" THEN <<>> ELSE <<p[1]>> \o FirstComponent(Tail(p))

\* Path::components without the root: the non-empty names between separators.
RECURSIVE Components(_)
Components(p) ==
    LET q == SkipSeparators(p)
    IN  IF q = <<>> THEN <<>>
        ELSE LET c == FirstComponent(q)
             IN  <<c>> \o Components(SubSeq(q, Len(c) + 1, Len(q)))

\* The text left of p after its first k components and the separators around
\* them (Components::as_path of the remaining iterator).
RECURSIVE DropComponents(_, _)
DropComponents(p, k) ==
    LET q == SkipSeparators(p)
    IN  IF k = 0 THEN q
        ELSE DropComponents(SubSeq(q, Len(FirstComponent(q)) + 1, Len(q)), k - 1)

IsPrefixSeq(a, b) == Len(a) <= Len(b) /\ SubSeq(b, 1, Len(a)) = a

\* Path::strip_prefix: compares whole components; None when base is no prefix.
StripPrefix(p, base) ==
    IF IsAbsolute(p) = IsAbsolute(base) /\ IsPrefixSeq(Components(base), Components(p))
    THEN Some(DropComponents(p, Len(Components(base))))
    ELSE None

(***************************************************************************)
(* The state: main's locals and the files of the project root R.           *)
(***************************************************************************)
VARIABLES
    pc,             \* position in main
    config,         \* the Config record (main.rs:44)
    is_default,     \* main.rs:46
    buffer,         \* read_from_stdin's line buffer (main.rs:112)
    uploaderFile,   \* R/.uploader: None, Some(the record it holds) or Garbage
    gitignore,      \* R/.gitignore: None or Some(text)
    tree,           \* the other directories and files under R
    outputZip,      \* R/output.zip: None or Some([entries, finished])
    walk,           \* zip_output's remaining WalkDir entries
    posted,         \* the POST requests sent so far
    buildResult,    \* run_build's outcome in this run ("none" before it)
    uploadResult,   \* the outcome of the POST ("none" before it)
    steps,          \* the side-effecting steps executed so far, in order
    panicMsg,       \* the message of the panic that aborted the run, or "none"
    resolved,       \* the Config as resolved by the file and the prompts, or None
    initial         \* the files as they were when the run started

vars == <<pc, config, is_default, buffer, uploaderFile, gitignore, tree, outputZip,
          walk, posted, buildResult, uploadResult, steps, panicMsg, resolved, initial>>

(***************************************************************************)
(* Names and texts.                                                        *)
(***************************************************************************)
\* current_dir(): the project root R (main.rs:41).
RootText == <<"/", "r">>
\* "output.zip" (main.rs:184)
OutputZipName == <<"o", "u", "t", "p", "u", "t", ".", "z", "i", "p">>
\* ".uploader" (main.rs:42, 103)
UploaderName == <<".", "u", "p", "l", "o", "a", "d", "e", "r">>
\* ".gitignore" (main.rs:97)
GitignoreName == <<".", "g", "i", "t", "i", "g", "n", "o", "r", "e">>
\* "build" (main.rs:23)
BuildName == <<"b", "u", "i", "l", "d">>
\* "npm run build" (main.rs:22), kept as one token per word
NpmRunBuild == <<"npm", " ", "run", " ", "build">>
\* "https://" (main.rs:73)
HttpsPrefix == <<"h", "t", "t", "p", "s", ":", "/", "/">>
\* "http" (main.rs:72)
HttpText == <<"h", "t", "t", "p">>

\* The order in which the host lists the names of a directory.
ListingOrder == <<GitignoreName, UploaderName, <<"b">>, BuildName, <<"i">>, OutputZipName>>

(***************************************************************************)
(* The file system under R.  Paths are sequences of names relative to R.   *)
(***************************************************************************)
\* What a path relative to R is, given which of the three root files exist.
KindOf(t, zipExists, cfgExists, gitExists, comps) ==
    IF comps = <<>> THEN "dir"
    ELSE IF comps \in t.dirs THEN "dir"
    ELSE IF comps \in t.files THEN "file"
    ELSE IF comps = <<OutputZipName>> /\ zipExists THEN "file"
    ELSE IF comps = <<UploaderName>> /\ cfgExists THEN "file"
    ELSE IF comps = <<GitignoreName>> /\ gitExists THEN "file"
    ELSE "none"

\* What an absolute path text names: nothing exists outside R but "/" itself.
\* A trailing separator on a regular file does not resolve (ENOTDIR).
KindOfText(t, zipExists, cfgExists, gitExists, text) ==
    LET comps == Components(text)
        root  == Components(RootText)
    IN  IF comps = <<>> THEN "dir"
        ELSE IF ~IsPrefixSeq(root, comps) THEN "none"
        ELSE LET k == KindOf(t, zipExists, cfgExists, gitExists,
                             SubSeq(comps, Len(root) + 1, Len(comps)))
             IN  IF k = "file" /\ EndsWith(text, <<"/">>) THEN "none" ELSE k

\* WalkDir::new(path).into_iter(), errors filtered out: the root entry, then
\* depth first the entries below it; a child's path is parent.join(name).
RECURSIVE WalkFrom(_, _, _, _, _, _)
RECURSIVE WalkChildren(_, _, _, _, _, _, _)
WalkFrom(t, z, c, g, text, comps) ==
    LET k == KindOf(t, z, c, g, comps)
    IN  <<[text |-> text, comps |-> comps, kind |-> k]>>
        \o (IF k = "dir" THEN WalkChildren(t, z, c, g, text, comps, 1) ELSE <<>>)

WalkChildren(t, z, c, g, text, comps, i) ==
    IF i > Len(ListingOrder) THEN <<>>
    ELSE LET n     == ListingOrder[i]
             child == Append(comps, n)
         IN  (IF KindOf(t, z, c, g, child) # "none"
              THEN WalkFrom(t, z, c, g, PathJoin(text, n), child)
              ELSE <<>>)
             \o WalkChildren(t, z, c, g, text, comps, i + 1)

\* The walk of an absolute path text.
WalkDir(t, z, c, g, text) ==
    LET comps == Components(text)
        root  == Components(RootText)
    IN  IF IsPrefixSeq(root, comps)
        THEN WalkFrom(t, z, c, g, text, SubSeq(comps, Len(root) + 1, Len(comps)))
        ELSE <<[text |-> text, comps |-> <<"outside">>, kind |-> "dir"]>>

\* The bytes read from a file under R (main.rs:211-212).  A file of the tree
\* holds the first character of its name and a marker; output.zip, read
\* while it is being written, and .uploader are abbreviated to two bytes.
FileBytes(comps) ==
    IF comps = <<OutputZipName>> THEN <<"P", "K">>
    ELSE IF comps = <<GitignoreName>> THEN gitignore.val
    ELSE IF comps = <<UploaderName>> THEN <<"{", "}">>
    ELSE <<comps[Len(comps)][1], "#">>

(***************************************************************************)
(* Config (main.rs:11-27) and the configure phase (main.rs:44-79).         *)
(***************************************************************************)
\* Config::default (main.rs:20-27)
ConfigDefault ==
    [build_command |-> Some(NpmRunBuild), directory |-> Some(BuildName),
     domain |-> None, auth |-> None]

\* A .uploader file serde_json cannot deserialize into Config.
Garbage == [tag |-> "Garbage"]

\* A panic (expect / panic!) aborts the run where it stands.
Panic(msg) ==
    /\ pc' = "panicked"
    /\ panicMsg' = msg

\* main.rs:44-56: load .uploader when it exists.
LoadConfig ==
    /\ pc = "start"
    /\ IF uploaderFile # None
       THEN IF uploaderFile = Garbage
            THEN /\ Panic("FAILED TO DESERIALIZE CONFIG FILE")
                 /\ UNCHANGED <<config, is_default>>
            ELSE /\ config' = uploaderFile.val
                 /\ is_default' = FALSE
                 /\ pc' = "directory"
                 /\ UNCHANGED panicMsg
       ELSE /\ is_default' = TRUE
            /\ pc' = "directory"
            /\ UNCHANGED <<config, panicMsg>>
    /\ UNCHANGED <<buffer, uploaderFile, gitignore, tree, outputZip, walk, posted,
                   buildResult, uploadResult, steps, resolved, initial>>

\* What stdin().read_line may append to the buffer: a typed line with its
\* newline, or nothing at end of input.
StdinLines == {<<>>, <<"\n">>, <<" ", "\n">>, <<"b", "\n">>}

\* One iteration of read_from_stdin's loop (main.rs:116-128) on buffer buf
\* after read_line appended line: the new value of res.
ReadResult(buf, line, default) ==
    LET t == Trim(buf \o line)
    IN  IF t = <<>> THEN default ELSE Some(t)

\* main.rs:58-60, 62-65, 67-69, 77-79 with read_from_stdin (main.rs:111-131):
\* prompt for a field that is unset, or for every field without a config file.
\* Each step is one iteration of the loop; the buffer is never cleared in it.
Prompt(field, here, next) ==
    /\ pc = here
    /\ IF IsNone(config[field]) \/ is_default
       THEN \E line \in StdinLines :
              LET res == ReadResult(buffer, line, config[field])
              IN  IF IsNone(res)
                  THEN /\ Len(buffer \o line) <= MaxBuffer
                       /\ buffer' = buffer \o line
                       /\ UNCHANGED <<pc, config>>
                  ELSE /\ buffer' = <<>>
                       /\ config' = [config EXCEPT ![field] = res]
                       /\ pc' = next
       ELSE /\ pc' = next
            /\ UNCHANGED <<buffer, config>>
    /\ UNCHANGED <<is_default, uploaderFile, gitignore, tree, outputZip, walk, posted,
                   buildResult, uploadResult, steps, panicMsg, resolved, initial>>

PromptDirectory == Prompt("directory", "directory", "build_command")
PromptBuildCommand == Prompt("build_command", "build_command", "domain")
PromptDomain == Prompt("domain", "domain", "normalise")
PromptAuth == Prompt("auth", "auth", "build")

\* A normalisation that prepends the scheme without looking at the text.
NormaliseDomainAlways(d) == HttpsPrefix \o d

\* main.rs:72-73: the scheme is prepended unless the text starts with "http".
NormaliseDomain(d) == IF ~StartsWith(d, HttpText) THEN HttpsPrefix \o d ELSE d

\* main.rs:71-75
Normalise ==
    /\ pc = "normalise"
    /\ config' = IF IsSome(config.domain)
                 THEN [config EXCEPT !.domain = Some(NormaliseDomain(config.domain.val))]
                 ELSE config
    /\ resolved' = Some(config)
    /\ pc' = "auth"
    /\ UNCHANGED <<is_default, buffer, uploaderFile, gitignore, tree, outputZip, walk,
                   posted, buildResult, uploadResult, steps, panicMsg, initial>>

(***************************************************************************)
(* run_build (main.rs:133-170) and main's early return (main.rs:81-86).    *)
(***************************************************************************)
\* What Command::status can give: exit status 0, another status, or an error
\* launching the shell.
BuildOutcomes == {"success", "failed", "launch_error"}

\* A run_build that reports only a non-zero exit status as an error.
RunBuildIsErrLaunchIgnored(outcome) == outcome = "failed"

\* run_build's Result: Ok(()) also when no build command is set.
RunBuildIsErr(outcome) == outcome \in {"failed", "launch_error"}

RunBuild ==
    /\ pc = "build"
    /\ \E outcome \in (IF IsSome(config.build_command) THEN BuildOutcomes
                                                       ELSE {"no_command"}) :
         /\ buildResult' = outcome
         /\ pc' = IF RunBuildIsErr(outcome) THEN "build_failed" ELSE "zip"
    /\ steps' = Append(steps, "build")
    /\ UNCHANGED <<config, is_default, buffer, uploaderFile, gitignore, tree, outputZip,
                   walk, posted, uploadResult, panicMsg, resolved, initial>>

(***************************************************************************)
(* zip_output (main.rs:172-224).                                           *)
(***************************************************************************)
\* A zip_output that keeps the path relative to R as the entry name.
EntryNameUnstripped(rel, dir) == ReplaceBackslashes(rel)

\* main.rs:202-206: the entry name of a file whose path relative to R is
\* rel, for the configured directory dir.
EntryName(rel, dir) ==
    LET name           == ReplaceBackslashes(rel)
        dir_with_slash == dir \o <<"/">>
    IN  IF StartsWith(name, dir_with_slash)
        THEN ReplaceFirst(name, dir_with_slash, <<>>)
        ELSE name

\* What Write::write may return for a buffer of n bytes: the number of bytes
\* it accepted, which the trait allows to be fewer than n (main.rs:214 does
\* not use write_all).
WriteCounts(n) == IF n = 0 THEN {0} ELSE 1..n

\* main.rs:172-193: resolve the directory, check it, create output.zip and
\* start the walk.
ZipBegin ==
    /\ pc = "zip"
    /\ IF IsNone(config.directory)
       THEN /\ Panic("output not set")
            /\ UNCHANGED <<outputZip, walk, steps>>
       ELSE LET path   == PathJoin(RootText, config.directory.val)
                exists == KindOfText(tree, outputZip # None, uploaderFile # None,
                                     gitignore # None, path) # "none"
            IN  IF ~exists
                THEN /\ Panic("OUTPUT DIRECTORY DOES NOT EXIST")
                     /\ UNCHANGED <<outputZip, walk, steps>>
                ELSE \E createOk \in BOOLEAN :
                       IF ~createOk
                       THEN /\ Panic("COULD NOT CREATE FILE")
                            /\ UNCHANGED <<outputZip, walk, steps>>
                       ELSE /\ outputZip' = Some([entries |-> <<>>, finished |-> FALSE])
                            /\ walk' = WalkDir(tree, TRUE, uploaderFile # None,
                                               gitignore # None, path)
                            /\ steps' = Append(steps, "create_zip")
                            /\ pc' = "zip_walk"
                            /\ UNCHANGED panicMsg
    /\ UNCHANGED <<config, is_default, buffer, uploaderFile, gitignore, tree, posted,
                   buildResult, uploadResult, resolved, initial>>

\* main.rs:195-218: one iteration of the loop over the walk.
ZipEntry ==
    /\ pc = "zip_walk"
    /\ walk # <<>>
    /\ LET e    == Head(walk)
           name == StripPrefix(e.text, RootText)
       IN  IF IsNone(name)
           THEN /\ Panic("COULD NOT STRIP PREFIX")
                /\ UNCHANGED <<outputZip, walk>>
           ELSE IF e.kind # "file"
           THEN /\ walk' = Tail(walk)
                /\ UNCHANGED <<pc, panicMsg, outputZip>>
           ELSE LET started == Append(outputZip.val.entries,
                                      [name |-> EntryName(name.val, config.directory.val),
                                       data |-> <<>>, source |-> e.comps])
                    bytes   == FileBytes(e.comps)
                IN  IF e.comps \in tree.unreadable
                    THEN /\ Panic("COULD NOT OPEN FILE")
                         /\ outputZip' = Some([outputZip.val EXCEPT !.entries = started])
                         /\ UNCHANGED walk
                    ELSE \E n \in WriteCounts(Len(bytes)) :
                           /\ outputZip' =
                                Some([outputZip.val EXCEPT
                                        !.entries = [started EXCEPT ![Len(started)].data =
                                                         SubSeq(bytes, 1, n)]])
                           /\ walk' = Tail(walk)
                           /\ UNCHANGED <<pc, panicMsg>>
    /\ UNCHANGED <<config, is_default, buffer, uploaderFile, gitignore, tree, posted,
                   buildResult, uploadResult, steps, resolved, initial>>

\* main.rs:220-223: finish the archive and return its path.
ZipFinish ==
    /\ pc = "zip_walk"
    /\ walk = <<>>
    /\ outputZip' = Some([outputZip.val EXCEPT !.finished = TRUE])
    /\ pc' = "upload"
    /\ UNCHANGED <<config, is_default, buffer, uploaderFile, gitignore, tree, walk, posted,
                   buildResult, uploadResult, steps, panicMsg, resolved, initial>>

(***************************************************************************)
(* upload_zip (main.rs:226-255).                                           *)
(***************************************************************************)
\* What send() can give: a 2xx response, another response, or an Err.
UploadOutcomes == {"success", "http_error", "transport_error"}

\* An upload_zip that unwraps the response: a failed upload aborts the run.
ReportResponseFatal(outcome) ==
    IF outcome = "success"
    THEN pc' = "upload_remove" /\ UNCHANGED panicMsg
    ELSE Panic("UPLOAD FAILED")

\* main.rs:241-250: the match on the response only prints, whatever the
\* outcome; upload_zip goes on to remove the archive.
ReportResponse(outcome) ==
    /\ pc' = "upload_remove"
    /\ UNCHANGED panicMsg

\* main.rs:227-250: build the form from the archive and send the POST.
UploadSend ==
    /\ pc = "upload"
    /\ IF IsNone(config.domain)
       THEN /\ Panic("DOMAIN NOT SET")
            /\ UNCHANGED <<posted, uploadResult, steps>>
       ELSE \E formOk \in BOOLEAN :
              IF ~formOk \/ outputZip = None
              THEN /\ Panic("FROM COULD NOT BE CREATED")
                   /\ UNCHANGED <<posted, uploadResult, steps>>
              ELSE IF IsNone(config.auth)
              THEN /\ Panic("AUTH NOT SET")
                   /\ UNCHANGED <<posted, uploadResult, steps>>
              ELSE \E outcome \in UploadOutcomes :
                     /\ posted' = Append(posted, [url |-> config.domain.val,
                                                  authorization |-> config.auth.val,
                                                  zip |-> outputZip.val.entries])
                     /\ uploadResult' = outcome
                     /\ steps' = Append(steps, "post")
                     /\ ReportResponse(outcome)
    /\ UNCHANGED <<config, is_default, buffer, uploaderFile, gitignore, tree, outputZip,
                   walk, buildResult, resolved, initial>>

\* An upload_zip whose removal has no effect on the archive.
AfterRemoveKeeps(zip, removeOk) == zip

\* What is left at the archive's path after fs::remove_file returned ok or
\* an error (main.rs:252-254): an error is only printed.
AfterRemove(zip, removeOk) == IF removeOk THEN None ELSE zip

\* main.rs:252-254
UploadRemove ==
    /\ pc = "upload_remove"
    /\ \E removeOk \in BOOLEAN :
         /\ outputZip' = AfterRemove(outputZip, removeOk)
         /\ steps' = Append(steps, IF removeOk THEN "remove_file" ELSE "remove_file_err")
    /\ pc' = "write_config"
    /\ UNCHANGED <<config, is_default, buffer, uploaderFile, gitignore, tree, walk, posted,
                   buildResult, uploadResult, panicMsg, resolved, initial>>

(***************************************************************************)
(* Persisting the config and updating .gitignore (main.rs:92-108).         *)
(***************************************************************************)
\* main.rs:92-94
WriteConfig ==
    /\ pc = "write_config"
    /\ \E writeOk \in BOOLEAN :
         IF writeOk
         THEN /\ uploaderFile' = Some(config)
              /\ steps' = Append(steps, "write_config")
              /\ pc' = "gitignore"
              /\ UNCHANGED panicMsg
         ELSE /\ Panic("CONFIG COULD NOT BE WRITTEN")
              /\ UNCHANGED <<uploaderFile, steps>>
    /\ UNCHANGED <<config, is_default, buffer, gitignore, tree, outputZip, walk, posted,
                   buildResult, uploadResult, resolved, initial>>

\* main.rs:101-106: the new contents of .gitignore, or None when the file is
\* not written.
GitignoreUpdate(contents) ==
    LET lines == Lines(contents)
    IN  IF ~Contains(lines, UploaderName)
        THEN Some(Join(Append(lines, UploaderName), <<"\n">>))
        ELSE None

\* main.rs:96-108
UpdateGitignore ==
    /\ pc = "gitignore"
    /\ IF gitignore # None
       THEN \E readOk \in BOOLEAN :
              IF ~readOk
              THEN /\ Panic("GITIGNORE COULD NOT BE READ")
                   /\ UNCHANGED <<gitignore, steps>>
              ELSE LET new == GitignoreUpdate(gitignore.val)
                   IN  IF IsSome(new)
                       THEN \E writeOk \in BOOLEAN :
                              IF writeOk
                              THEN /\ gitignore' = Some(new.val)
                                   /\ steps' = Append(steps, "gitignore")
                                   /\ pc' = "done"
                                   /\ UNCHANGED panicMsg
                              ELSE /\ Panic("GITIGNORE COULD NOT BE WRITTEN")
                                   /\ UNCHANGED <<gitignore, steps>>
                       ELSE /\ steps' = Append(steps, "gitignore")
                            /\ pc' = "done"
                            /\ UNCHANGED <<gitignore, panicMsg>>
       ELSE /\ steps' = Append(steps, "gitignore")
            /\ pc' = "done"
            /\ UNCHANGED <<gitignore, panicMsg>>
    /\ UNCHANGED <<config, is_default, buffer, uploaderFile, tree, outputZip, walk, posted,
                   buildResult, uploadResult, resolved, initial>>

(***************************************************************************)
(* The run.                                                                *)
(***************************************************************************)
Next ==
    \/ LoadConfig
    \/ PromptDirectory
    \/ PromptBuildCommand
    \/ PromptDomain
    \/ PromptAuth
    \/ Normalise
    \/ RunBuild
    \/ ZipBegin
    \/ ZipEntry
    \/ ZipFinish
    \/ UploadSend
    \/ UploadRemove
    \/ WriteConfig
    \/ UpdateGitignore

\* The state when main is entered, for given files under R.
InitWith(cfgFile, git, t) ==
    /\ pc = "start"
    /\ config = ConfigDefault
    /\ is_default = FALSE
    /\ buffer = <<>>
    /\ uploaderFile = cfgFile
    /\ gitignore = git
    /\ tree = t
    /\ outputZip = None
    /\ walk = <<>>
    /\ posted = <<>>
    /\ buildResult = "none"
    /\ uploadResult = "none"
    /\ steps = <<>>
    /\ panicMsg = "none"
    /\ resolved = None
    /\ initial = [uploaderFile |-> cfgFile, gitignore |-> git, tree |-> t]

(***************************************************************************)
(* Initial states: the files the run may find under R.                     *)
(***************************************************************************)
NameB == <<"b">>
NameI == <<"i">>

\* Every proper, non-empty prefix of path p.
ProperPrefixes(p) == {SubSeq(p, 1, k) : k \in 1..(Len(p) - 1)}

\* The directory trees with directories among dirU and files among fileU:
\* nothing is both, every parent is a directory, and at most one file cannot
\* be opened.
TreesOver(dirU, fileU) ==
    {[dirs |-> d, files |-> f, unreadable |-> u] :
        <<d, f, u>> \in
          {x \in (SUBSET dirU) \X (SUBSET fileU) \X (SUBSET fileU) :
              /\ x[1] \cap x[2] = {}
              /\ \A p \in x[1] \cup x[2] : ProperPrefixes(p) \subseteq x[1]
              /\ x[3] \subseteq x[2]
              /\ Cardinality(x[3]) <= 1}}

\* The .uploader files whose fields are taken from the given sets of
\* Option<String> values.
ConfigFiles(cmds, dirs, domains, auths) ==
    {Some([build_command |-> c, directory |-> d, domain |-> m, auth |-> a]) :
        <<c, d, m, a>> \in cmds \X dirs \X domains \X auths}

MainTrees ==
    TreesOver({<<NameB>>}, {<<NameB>>, <<NameB, NameI>>})
    \cup {[dirs |-> {<<BuildName>>}, files |-> {<<BuildName, NameI>>}, unreadable |-> {}]}

MainConfigFiles ==
    {None, Garbage}
    \cup ConfigFiles({None, Some(<<"c">>)},
                     {None, Some(<<>>), Some(NameB)},
                     {None, Some(<<>>), Some(<<"x">>)},
                     {None, Some(<<>>), Some(<<"k">>)})

MainGitignores == {None, Some(<<"a", "\n">>)}

Init ==
    \E cfgFile \in MainConfigFiles, git \in MainGitignores, t \in MainTrees :
        InitWith(cfgFile, git, t)

Spec == Init /\ [][Next]_vars

(***************************************************************************)
(* Archiving alone: every output-directory string of up to MaxDirLen       *)
(* characters, stored in .uploader, over every small tree.                 *)
(***************************************************************************)
DirStrings == StringsUpTo({"b", "/", "r"}, MaxDirLen)

ZipTrees ==
    TreesOver({<<NameB>>, <<NameB, NameB>>},
              {<<NameB>>, <<NameI>>, <<NameB, NameI>>, <<NameB, NameB>>,
               <<NameB, NameB, NameI>>})

InitZip ==
    \E d \in DirStrings, t \in ZipTrees :
        InitWith(Some([build_command |-> Some(<<"c">>), directory |-> Some(d),
                       domain |-> Some(HttpText), auth |-> Some(<<"k">>)]),
                 None, t)

SpecZip == InitZip /\ [][Next]_vars

(***************************************************************************)
(* The .gitignore update alone: every contents of up to MaxGitLen pieces,  *)
(* a piece being a character, a line ending or the text ".uploader".       *)
(***************************************************************************)
RECURSIVE Concat(_)
Concat(ss) == IF ss = <<>> THEN <<>> ELSE ss[1] \o Concat(Tail(ss))

GitignorePieces == {<<"a">>, <<"\n">>, <<"\r">>, UploaderName}

GitignoreTexts == {Concat(ps) : ps \in StringsUpTo(GitignorePieces, MaxGitLen)}

\* A complete .uploader file for the tree below.
PlainConfigFile ==
    Some([build_command |-> Some(<<"c">>), directory |-> Some(NameB),
          domain |-> Some(HttpText), auth |-> Some(<<"k">>)])

PlainTree == [dirs |-> {<<NameB>>}, files |-> {<<NameB, NameI>>}, unreadable |-> {}]

InitGit ==
    \E g \in {None} \cup {Some(x) : x \in GitignoreTexts} :
        InitWith(PlainConfigFile, g, PlainTree)

SpecGit == InitGit /\ [][Next]_vars

(***************************************************************************)
(* Domain normalisation alone: every domain of up to MaxDomainLen          *)
(* characters stored in .uploader, or none stored and one typed.           *)
(***************************************************************************)
DomainTexts == StringsUpTo({"h", "t", "p"}, MaxDomainLen)

InitDomain ==
    \E m \in {None} \cup {Some(x) : x \in DomainTexts} :
        InitWith(Some([build_command |-> Some(<<"c">>), directory |-> Some(NameB),
                       domain |-> m, auth |-> Some(<<"k">>)]),
                 None, PlainTree)

SpecDomain == InitDomain /\ [][Next]_vars

(***************************************************************************)
(* Properties of the run.                                                  *)
(***************************************************************************)
\* The files main itself writes are as they were when the run started.
ConfigAndGitignoreUntouched ==
    /\ uploaderFile = initial.uploaderFile
    /\ gitignore = initial.gitignore

\* The step of the run in which the POST was sent.
PostIndex == CHOOSE i \in 1..Len(steps) : steps[i] = "post"

\* The steps executed after the POST.
StepsAfterPost == SubSeq(steps, PostIndex + 1, Len(steps))

\* upload_zip has returned: the POST was attempted and the removal is behind.
UploadReturned == uploadResult # "none" /\ pc # "upload_remove"

\* C1: whenever the build command exited non-zero or could not be launched,
\* main has returned right after run_build: zip_output and upload_zip were not
\* invoked, no output.zip exists, no POST was sent, and .uploader and
\* .gitignore are as they were, also when every value was typed in this run.
C1_BuildFailureStopsRun ==
    buildResult \in {"failed", "launch_error"} =>
        /\ pc = "build_failed"
        /\ steps = <<"build">>
        /\ outputZip = None
        /\ posted = <<>>
        /\ ConfigAndGitignoreUntouched

\* C1 witness: a first run (no .uploader), values typed, the build failed.
C1_Witness ==
    /\ pc = "build_failed"
    /\ is_default
    /\ initial.uploaderFile = None
    /\ config.domain = Some(HttpsPrefix \o <<"b">>)
    /\ buildResult = "launch_error"

\* C2 as stated: once upload_zip has returned, whatever the outcome of the
\* POST, output.zip no longer exists.
C2_ArchiveGoneAfterUpload == UploadReturned => outputZip = None

\* C2 as amended: after every upload attempt, whatever its outcome,
\* upload_zip calls remove_file on output.zip as its next step; the archive
\* no longer exists when that call succeeded, and an error of the call is
\* only reported.
C2_ArchiveRemovedUnlessRemoveFails ==
    UploadReturned =>
        /\ StepsAfterPost # <<>>
        /\ StepsAfterPost[1] \in {"remove_file", "remove_file_err"}
        /\ StepsAfterPost[1] = "remove_file" => outputZip = None

\* C2 witness: a transport failure, and the archive has been removed.
C2_Witness ==
    /\ UploadReturned
    /\ uploadResult = "transport_error"
    /\ StepsAfterPost[1] = "remove_file"
    /\ outputZip = None

\* The panics of the steps that follow upload_zip in main.
PanicsAfterUpload ==
    {"CONFIG COULD NOT BE WRITTEN", "GITIGNORE COULD NOT BE READ",
     "GITIGNORE COULD NOT BE WRITTEN"}

\* The steps that follow the POST in a run that reaches its end.
IsFullTail(t) ==
    /\ Len(t) = 3
    /\ t[1] \in {"remove_file", "remove_file_err"}
    /\ t[2] = "write_config"
    /\ t[3] = "gitignore"

\* C3: a failed upload (non-2xx status or transport error) never aborts the
\* run: the removal of output.zip, the write of .uploader and the update of
\* .gitignore follow in that order, and the run can only stop early where it
\* also can after a successful upload, at a failed write or read of those files.
C3_UploadFailureDoesNotAbort ==
    uploadResult \in {"http_error", "transport_error"} =>
        /\ pc \in {"upload_remove", "write_config", "gitignore", "done", "panicked"}
        /\ pc = "upload_remove" => StepsAfterPost = <<>>
        /\ pc = "write_config" => Len(StepsAfterPost) = 1
        /\ pc = "gitignore" => Len(StepsAfterPost) = 2 /\ StepsAfterPost[2] = "write_config"
        /\ pc = "done" => IsFullTail(StepsAfterPost) /\ uploaderFile = Some(config)
        /\ pc = "panicked" => panicMsg \in PanicsAfterUpload
        /\ StepsAfterPost # <<>> => StepsAfterPost[1] \in {"remove_file", "remove_file_err"}

\* C3 witness: the upload failed with an HTTP status and the run reached its
\* end with the archive removed, the config written and .gitignore updated.
C3_Witness ==
    /\ pc = "done"
    /\ uploadResult = "http_error"
    /\ StepsAfterPost = <<"remove_file", "write_config", "gitignore">>
    /\ outputZip = None
    /\ uploaderFile = Some(config)
    /\ gitignore # None /\ gitignore # initial.gitignore

\* The run has ended: main returned or a panic aborted it.
RunEnded == pc \in {"done", "build_failed", "panicked"}

\* C6 as stated: however the run ends, no output.zip is left behind.
C6_NoArchiveLeftBehind == RunEnded => outputZip = None

\* A text is present and non-empty.
Populated(o) == IsSome(o) /\ o.val # <<>>

\* C9 as stated: whenever zip_output or upload_zip is invoked, directory,
\* domain and auth are all present and non-empty.
C9_ConfigPopulated ==
    pc \in {"zip", "upload"} =>
        /\ Populated(config.directory)
        /\ Populated(config.domain)
        /\ Populated(config.auth)

\* R/D is not a directory: it is missing or it is something else.
OutputDirIsNoDirectory ==
    /\ IsSome(config.directory)
    /\ KindOfText(tree, FALSE, uploaderFile # None, gitignore # None,
                  PathJoin(RootText, config.directory.val)) # "dir"

\* zip_output has been called in this run.
ZipOutputCalled ==
    \/ pc \in {"zip_walk", "upload", "upload_remove", "write_config", "gitignore", "done"}
    \/ pc = "panicked" /\ Len(steps) >= 1

\* C10 as stated: when R/D is not a directory, zip_output aborts the run
\* before output.zip is created: no archive, no POST, and .uploader and
\* .gitignore are not written.
C10_NoDirectoryAbortsBeforeCreate ==
    (ZipOutputCalled /\ OutputDirIsNoDirectory) =>
        /\ pc = "panicked"
        /\ outputZip = None
        /\ steps = <<"build">>
        /\ posted = <<>>
        /\ ConfigAndGitignoreUntouched

(***************************************************************************)
(* Properties of the archive.                                              *)
(***************************************************************************)
\* The configured output-directory string D.
DirText == config.directory.val

\* R/D as names relative to R, when D names something under R.
DirComps ==
    LET comps == Components(PathJoin(RootText, DirText))
    IN  SubSeq(comps, Len(Components(RootText)) + 1, Len(comps))

\* R/D is a directory under R.
OutputDirIsDirectory ==
    /\ IsSome(config.directory)
    /\ IsPrefixSeq(Components(RootText), Components(PathJoin(RootText, DirText)))
    /\ KindOfText(tree, FALSE, uploaderFile # None, gitignore # None,
                  PathJoin(RootText, DirText)) = "dir"

\* The regular files under R/D, as names relative to R.
FilesUnderDir ==
    {f \in tree.files \cup {<<n>> : n \in {OutputZipName, UploaderName, GitignoreName}} :
        /\ KindOf(tree, outputZip # None, uploaderFile # None, gitignore # None, f) = "file"
        /\ IsPrefixSeq(DirComps, f)}

\* The location of file f relative to D, with forward slashes.
LocationInDir(f) == Join(SubSeq(f, Len(DirComps) + 1, Len(f)), <<"/">>)

\* The entries written to the archive so far.
Entries == outputZip.val.entries

\* C4 as stated: once zip_output has returned for a directory R/D, every
\* regular file under R/D has exactly one entry, named by its location
\* relative to D and holding its bytes, and there is no other entry.
C4_EveryFileOnceUnderItsLocation ==
    (pc = "upload" /\ outputZip # None /\ OutputDirIsDirectory) =>
        /\ \A f \in FilesUnderDir :
             /\ Cardinality({i \in 1..Len(Entries) : Entries[i].source = f}) = 1
             /\ \A i \in 1..Len(Entries) :
                  Entries[i].source = f =>
                      /\ Entries[i].name = LocationInDir(f)
                      /\ Entries[i].data = FileBytes(f)
        /\ \A i \in 1..Len(Entries) : Entries[i].source \in FilesUnderDir

C7_GitignoreAppendedOnce ==
    (pc = "done" /\ initial.gitignore # None) =>
        /\ gitignore # None
        /\ IF Contains(Lines(initial.gitignore.val), UploaderName)
           THEN gitignore = initial.gitignore
           ELSE Lines(gitignore.val) = Append(Lines(initial.gitignore.val), UploaderName)
        /\ Contains(Lines(gitignore.val), UploaderName)

\* The domain as the file and the prompt resolved it, before normalisation.
ResolvedDomain == resolved.val.domain.val

\* What C8 says the domain is after normalisation.
ExpectedDomain ==
    IF StartsWith(ResolvedDomain, <<"h", "t", "t", "p">>)
    THEN ResolvedDomain
    ELSE <<"h", "t", "t", "p", "s", ":", "/", "/">> \o ResolvedDomain

\* C8: the domain every POST is sent to and the domain written to .uploader
\* are "https://" followed by the resolved domain when that does not start
\* with "http", and the resolved domain itself when it does; the written
\* domain starts with "http", so the next run leaves it unchanged.
C8_DomainNormalised ==
    (resolved # None /\ IsSome(resolved.val.domain)) =>
        /\ \A i \in 1..Len(posted) : posted[i].url = ExpectedDomain
        /\ Contains(steps, "write_config") =>
             /\ uploaderFile.val.domain = Some(ExpectedDomain)
             /\ StartsWith(uploaderFile.val.domain.val, <<"h", "t", "t", "p">>)

\* C8 witness: the stored domain "htt" was posted to and written back as
\* "https://htt".
C8_Witness ==
    /\ pc = "done"
    /\ resolved # None
    /\ ResolvedDomain = <<"h", "t", "t">>
    /\ Len(posted) = 1
    /\ posted[1].url = <<"h", "t", "t", "p", "s", ":", "/", "/", "h", "t", "t">>
    /\ uploaderFile.val.domain = Some(posted[1].url)
=============================================================================
